---- MODULE Spec2Model ----
(***************************************************************************)
(* A model of PassageService (src/src/apis/passage/passage.service.ts):    *)
(* the directory walk of load/_load, the passage builder parseFile with    *)
(* parseName and formatDate, the in-memory store this.passages with its    *)
(* query methods, and the sync of onUpload/updatePassage against the       *)
(* remote collection.                                                      *)
(*                                                                         *)
(* One action is one run of the event loop: the code from the completion   *)
(* of one awaited I/O operation (readdir, stat, readFile, a remote call)   *)
(* up to the next await.  File names are sequences of one-character        *)
(* strings so that the name tests of the code are computed, not assumed.   *)
(***************************************************************************)
EXTENDS Integers, Sequences, FiniteSets, TLC

\* ------------------------------------------------------------------ bounds
MaxLoads == 2      \* load() calls in one run
MaxEdits == 1      \* changes made to the directory tree between loads
MaxFails == 1      \* remote calls that fail in one run
MaxDay   == 3      \* calendar days are 1..MaxDay
MaxPage  == 3      \* |page| and |limit| arguments of describePassages

\* ------------------------------------------------------------- characters
Digits == {"0", "1", "2", "3", "4", "5", "6", "7", "8", "9"}

UpperChars == <<"A", "B", "C", "D", "E", "F", "G", "H", "I", "J", "K", "L", "M",
                "N", "O", "P", "Q", "R", "S", "T", "U", "V", "W", "X", "Y", "Z">>
LowerChars == <<"a", "b", "c", "d", "e", "f", "g", "h", "i", "j", "k", "l", "m",
                "n", "o", "p", "q", "r", "s", "t", "u", "v", "w", "x", "y", "z">>

\* String.prototype.toLocaleLowerCase, one character
LowerChar(c) ==
  IF \E i \in 1..26 : UpperChars[i] = c
  THEN LowerChars[CHOOSE i \in 1..26 : UpperChars[i] = c]
  ELSE c

\* String.prototype.toLocaleLowerCase
toLocaleLowerCase(s) == [i \in 1..Len(s) |-> LowerChar(s[i])]

\* String.prototype.endsWith
endsWith(s, suffix) ==
  /\ Len(s) >= Len(suffix)
  /\ SubSeq(s, Len(s) - Len(suffix) + 1, Len(s)) = suffix

\* number of leading digits of s
RECURSIVE DigitRun(_)
DigitRun(s) ==
  IF s # <<>> /\ Head(s) \in Digits THEN 1 + DigitRun(Tail(s)) ELSE 0

README_MD == <<"r", "e", "a", "d", "m", "e", ".", "m", "d">>
README    == <<"r", "e", "a", "d", "m", "e">>
DOT_MD    == <<".", "m", "d">>

\* validNameRe = /^\d+\./ applied with RegExp.prototype.test
validNameReTest(name) ==
  LET k == DigitRun(name) IN k >= 1 /\ Len(name) > k /\ name[k + 1] = "."

\* isValidName comparing the name as it is written
isValidName_exactCase(name) ==
  IF name = README_MD THEN TRUE ELSE validNameReTest(name)

\* isValidName: "readme.md" in any case, or digits followed by a dot
isValidName(name) ==
  IF toLocaleLowerCase(name) = README_MD THEN TRUE ELSE validNameReTest(name)

\* index of the last "." of s, 0 when there is none
RECURSIVE LastDot(_)
LastDot(s) ==
  IF s = <<>> THEN 0
  ELSE IF s[Len(s)] = "." THEN Len(s)
  ELSE LastDot(SubSeq(s, 1, Len(s) - 1))

\* path.parse(p).name: the base name without its extension; a leading dot
\* does not start an extension
pathParseName(base) ==
  LET d == LastDot(base) IN IF d <= 1 THEN base ELSE SubSeq(base, 1, d - 1)

\* String.prototype.replace(/^\d*?\./, ''): the shortest run of leading
\* digits that a dot follows is removed together with the dot
stripDigitPrefix(s) ==
  LET k == DigitRun(s) IN
  IF Len(s) > k /\ s[k + 1] = "." THEN SubSeq(s, k + 2, Len(s)) ELSE s

\* -------------------------------------------------------- the notes folder
\* The tree below NOTES_FOLDER that readdir and stat read.  Node 0 is the
\* folder itself.
NOTES_FOLDER == <<"n", "o", "t", "e", "s">>

Nodes == 0..12

NodeName(n) ==
  CASE n = 0  -> NOTES_FOLDER
    [] n = 1  -> <<"r", "e", "a", "d", "m", "e", ".", "m", "d">>
    [] n = 2  -> <<"0", "1", ".", "a", ".", "m", "d">>
    [] n = 3  -> <<"n", "o", "t", "e", "s", ".", "t", "x", "t">>
    [] n = 4  -> <<"n", "o", "t", "e", "s", ".", "m", "d">>
    [] n = 5  -> <<"0", "3", ".", "c", ".", "t", "x", "t">>
    [] n = 6  -> <<"0", "2", ".", "b">>
    [] n = 7  -> <<"R", "E", "A", "D", "M", "E", ".", "m", "d">>
    [] n = 8  -> <<"d", "r", "a", "f", "t">>
    [] n = 9  -> <<"0", "1", ".", "x", ".", "m", "d">>
    [] n = 10 -> <<"R", "e", "a", "d", "m", "e", ".", "M", "D">>
    [] n = 11 -> <<"7", ".", "m", "d">>
    [] n = 12 -> <<"x", "7", ".", "m", "d">>

NodeParent(n) ==
  CASE n \in {1, 2, 3, 4, 6} -> 0
    [] n \in {7, 8, 10, 11}  -> 6
    [] n = 9                -> 8
    [] n \in {5, 12}        -> 11
    [] OTHER                -> 0

Dirs  == {0, 6, 8, 11}
Files == Nodes \ Dirs

\* the files whose text changes between loads
VarFiles == {1, 2, 7}

NoVal == "<none>"

\* a front-matter date that is absent, and one moment cannot parse
NoDate  == 0
BadDate == 0 - 1

\* What parseFile reads from a file's text: whether mdRe finds a header and
\* yaml.safeLoad decodes it to a mapping, and the mapping's fields.
\*   yaml = "none"      no header: safeLoad gives no mapping
\*   yaml = "malformed" safeLoad throws
\*   yaml = "map"       a mapping with the fields below (NoVal, <<>>: absent)
\*   yaml = "removed"   the file is not on disk
Text(y, p, d, t) == [yaml |-> y, permalink |-> p, date |-> d, title |-> t]

Removed == Text("removed", NoVal, NoDate, <<>>)

Texts(n) ==
  CASE n = 1 -> { Text("map", "p1", 2, <<"T", "1">>),
                  Text("map", NoVal, 1, <<"T", "1">>),
                  Removed }
    [] n = 2 -> { Text("map", "p2", 1, <<>>),
                  Text("map", "p2", BadDate, <<>>),
                  Text("map", "p2", NoDate, <<>>) }
    [] n = 7 -> { Text("map", "p3", 3, <<>>),
                  Text("map", "p1", 1, <<"T", "7">>),
                  Text("map", "", 2, <<>>),
                  Text("malformed", NoVal, NoDate, <<>>),
                  Text("none", NoVal, NoDate, <<>>) }
    [] OTHER -> { Text("map", "px", 2, <<>>) }

\* ----------------------------------------------------------------- state
VARIABLES
  folderExists,  \* fs.existsSync(NOTES_FOLDER)
  disk,          \* the text of every file
  clock,         \* the day moment() reads
  edits,         \* changes made to the tree so far
  uploaded,      \* the module-level flag of line 16
  heap,          \* the arrays this.passages has named, by array id
  passages,      \* this.passages: the id of the array it names now
  loads,         \* every load() call: where it stands, and what it did
  tasks,         \* the upsert tasks handed to the limiter, in order
  batches,       \* every run of onUpload past its guard
  notices,       \* UploadRepeated log events
  remote,        \* the records of COLLECTION_PASSAGES, in insertion order
  fails,         \* remote calls that failed so far
  query          \* the last call of describePassages or parseName and its result

vars == <<folderExists, disk, clock, edits, uploaded, heap, passages, loads,
          tasks, batches, notices, remote, fails, query>>

\* ------------------------------------------------------- passage builder
\* formatDate: the timestamp in timeFormat, as [day, time]; threw is set
\* where the code throws.  An absent value takes the clock's day and time of
\* day; one moment accepts keeps its own.
formatDate(timeStr, now) ==
  IF timeStr = NoDate THEN [threw |-> FALSE, day |-> now, time |-> "now"]
  ELSE IF timeStr \notin 1..MaxDay THEN [threw |-> TRUE, day |-> 0, time |-> ""]
  ELSE [threw |-> FALSE, day |-> timeStr, time |-> "00:00:00"]

\* mtimeStr.slice(0, 10): the calendar day of a formatted timestamp
slice10(mtimeStr) == mtimeStr.day

\* parseName: the file's base name, or for a readme the parent directory's
\* name without its digit prefix
parseNameOf(dir, base) ==
  LET name == pathParseName(base) IN
  IF toLocaleLowerCase(name) # README THEN name
  ELSE stripDigitPrefix(dir)

\* parseName(filepath) for the path of node n: dir is the last part of
\* info.dir, the name of the directory that holds n
parseName(n) == parseNameOf(NodeName(NodeParent(n)), NodeName(n))

\* the guard of parseFile testing yamlInfo alone
hasPermalink_anyMapping(text) == text.yaml = "map"

\* yamlInfo && yamlInfo.permalink, for a header safeLoad decodes
hasPermalink(text) == text.yaml = "map" /\ text.permalink \notin {NoVal, ""}

\* parseFile: [threw |-> TRUE] where the code throws (safeLoad, formatDate or
\* the invalid-frontmatter error), else the passage built from node n's text
parseFile(n, text, now) ==
  LET mtimeStr == formatDate(text.date, now)
      filename == parseName(n) IN
  IF text.yaml = "malformed" \/ ~hasPermalink(text) \/ mtimeStr.threw
  THEN [threw |-> TRUE]
  ELSE [threw |-> FALSE,
        passage |-> [ filename  |-> filename,
                      filepath  |-> n,
                      title     |-> IF text.title = <<>> THEN filename ELSE text.title,
                      mtime     |-> [day |-> mtimeStr.day, time |-> mtimeStr.time],
                      date      |-> slice10(mtimeStr),
                      permalink |-> text.permalink ]]

\* ------------------------------------------------------------ the store
\* load sorting with the ascending comparator whatever `asc`
compareDate_ascOnly(a, b, asc) ==
  IF a.date < b.date THEN 0 - 1 ELSE IF a.date > b.date THEN 1 ELSE 0

\* the comparators of load's two sort calls
compareDate(a, b, asc) ==
  IF asc THEN (IF a.date < b.date THEN 0 - 1 ELSE IF a.date > b.date THEN 1 ELSE 0)
  ELSE (IF a.date < b.date THEN 1 ELSE IF a.date > b.date THEN 0 - 1 ELSE 0)

\* x placed into the sorted s behind every element that does not come after it
RECURSIVE InsertSorted(_, _, _)
InsertSorted(x, s, asc) ==
  IF s = <<>> THEN <<x>>
  ELSE IF compareDate(Head(s), x, asc) <= 0
       THEN <<Head(s)>> \o InsertSorted(x, Tail(s), asc)
       ELSE <<x>> \o s

\* Array.prototype.sort with the comparator of `asc`: a stable sort
RECURSIVE sortPassages(_, _)
sortPassages(s, asc) ==
  IF s = <<>> THEN <<>>
  ELSE InsertSorted(s[Len(s)], sortPassages(SubSeq(s, 1, Len(s) - 1), asc), asc)

Max(a, b) == IF a > b THEN a ELSE b
Min(a, b) == IF a < b THEN a ELSE b

\* Array.prototype.slice(start, end): a negative index counts from the end
slice(s, start, end) ==
  LET n == Len(s)
      k == IF start < 0 THEN Max(n + start, 0) ELSE Min(start, n)
      f == IF end < 0 THEN Max(n + end, 0) ELSE Min(end, n)
  IN IF k >= f THEN <<>> ELSE SubSeq(s, k + 1, f)

\* describePassages counting pages from 0
describePassages_fromZero(s, limit, page) == slice(s, page * limit, (page + 1) * limit)

\* describePassages(limit, page) on the array `s`
describePassages(s, limit, page) == slice(s, (page - 1) * limit, page * limit)

\* describePassageById, countAllPassages, describeAllPassageIds
describePassageById(s, psgId) ==
  IF \E i \in 1..Len(s) : s[i].permalink = psgId
  THEN s[CHOOSE i \in 1..Len(s) : s[i].permalink = psgId
                                  /\ \A j \in 1..(i - 1) : s[j].permalink # psgId]
  ELSE [permalink |-> NoVal]
countAllPassages(s) == Len(s)
describeAllPassageIds(s) == [i \in 1..Len(s) |-> s[i].permalink]

\* ----------------------------------------------------------- the limiter
\* asyncLimitService.init('passage', 10)
passageLimit == 10

\* the tasks the limiter is running
Active(ts) == {i \in 1..Len(ts) : ts[i].pc \in {"find", "write"}}
Queued(ts) == {i \in 1..Len(ts) : ts[i].pc = "queued"}

\* the limiter starts queued tasks, oldest first, while fewer than
\* passageLimit run; a started task has issued its collection.where().get()
RECURSIVE pLimitNext(_)
pLimitNext(ts) ==
  IF Cardinality(Active(ts)) < passageLimit /\ Queued(ts) # {}
  THEN LET i == CHOOSE q \in Queued(ts) : \A r \in Queued(ts) : q <= r
       IN pLimitNext([ts EXCEPT ![i].pc = "find"])
  ELSE ts

\* onUpload calling this.updatePassage(passage) itself, not through pLimit
submitAll_noLimit(ts, store, b) ==
  ts \o [i \in 1..Len(store) |->
          [batch |-> b, passage |-> store[i], pc |-> "find", found |-> 0]]

\* pLimit(() => this.updatePassage(passage)) for every passage of `store`
submitAll(ts, store, b) ==
  pLimitNext(ts \o [i \in 1..Len(store) |->
                      [batch |-> b, passage |-> store[i], pc |-> "queued", found |-> 0]])

\* onUpload awaiting Promise.allSettled: UploadSuccess once every promise has
\* settled, rejected ones included
settle_allSettled(ts, bs) ==
  [b \in 1..Len(bs) |->
     IF bs[b].state # "pending" THEN bs[b]
     ELSE IF \A i \in 1..Len(ts) : ts[i].batch = b => ts[i].pc \in {"done", "failed"}
          THEN [bs[b] EXCEPT !.state = "success"]
     ELSE bs[b]]

\* onUpload logging UploadSuccess when the first of its promises resolves
settle_onFirst(ts, bs) ==
  [b \in 1..Len(bs) |->
     IF bs[b].state # "pending" THEN bs[b]
     ELSE IF \E i \in 1..Len(ts) : ts[i].batch = b /\ ts[i].pc = "failed"
          THEN [bs[b] EXCEPT !.state = "rejected"]
     ELSE IF \E i \in 1..Len(ts) : ts[i].batch = b /\ ts[i].pc = "done"
          THEN [bs[b] EXCEPT !.state = "success"]
     ELSE bs[b]]

\* what Promise.all(promises) of batch b has come to
settle(ts, bs) ==
  [b \in 1..Len(bs) |->
     IF bs[b].state # "pending" THEN bs[b]
     ELSE IF \E i \in 1..Len(ts) : ts[i].batch = b /\ ts[i].pc = "failed"
          THEN [bs[b] EXCEPT !.state = "rejected"]
     ELSE IF \A i \in 1..Len(ts) : ts[i].batch = b => ts[i].pc = "done"
          THEN [bs[b] EXCEPT !.state = "success"]
     ELSE bs[b]]

\* ------------------------------------------------------------- the walk
Loads == 1..MaxLoads

\* pc: where the call stands ("new": not called yet); stack, cur: the frames
\* of _load and the entry awaited; target: the array push was read from;
\* handed, errors, result, emits, epoch, overlap record what the call did:
\* the files given to parseFile, the files logged as failed, the sequence
\* returned, the emit('upload') calls, the value of `edits` when it was
\* called, whether another call ran during it
NewLoad == [pc |-> "new", asc |-> FALSE, stack |-> <<>>, cur |-> 0, target |-> 0,
            handed |-> {}, errors |-> {}, result |-> <<>>,
            emits |-> 0, epoch |-> 0, overlap |-> FALSE]

Walking(l) == loads[l].pc \in {"readdir", "stat", "readFile"}
Idle == \A l \in Loads : ~Walking(l)

\* fsPromises.readdir: the entries of directory d that are on disk
readdir(d) ==
  {n \in Nodes \ {0} : NodeParent(n) = d /\ (n \in Files => disk[n].yaml # "removed")}

\* The for loop of _load from where it stands: entries whose name is not
\* valid are passed over, the first valid one is stat'ed; a frame with no
\* valid entry left returns to its caller's loop.  readdir's order is any
\* order: every valid entry left may be the next.
RECURSIVE nextEntry(_)
nextEntry(stack) ==
  IF stack = <<>> THEN {[more |-> FALSE, stack |-> <<>>, cur |-> 0]}
  ELSE LET top   == stack[Len(stack)]
           valid == {n \in top.todo : isValidName(NodeName(n))}
       IN IF valid = {}
          THEN nextEntry(SubSeq(stack, 1, Len(stack) - 1))
          ELSE {[more  |-> TRUE,
                 stack |-> [stack EXCEPT ![Len(stack)].todo = top.todo \ {n}],
                 cur   |-> n] : n \in valid}

\* onUpload, up to its await: the guard on `uploaded`, then one task per
\* passage of this.passages
onUpload(l, store) ==
  IF uploaded
  THEN /\ notices' = notices + 1
       /\ UNCHANGED <<tasks, batches>>
  ELSE /\ tasks' = submitAll(tasks, store, Len(batches) + 1)
       /\ batches' = Append(batches,
                       [load |-> l, size |-> Len(store),
                        state |-> IF store = <<>> THEN "success" ELSE "pending"])
       /\ UNCHANGED notices

\* load after `await this._load(this.folderName)`: emit('upload'), the sort
\* of this.passages in place, the return of this.passages
finishLoad(l, ld, hp) ==
  LET sorted == sortPassages(hp[passages], ld.asc) IN
  /\ onUpload(l, hp[passages])
  /\ heap' = [hp EXCEPT ![passages] = sorted]
  /\ loads' = [loads EXCEPT ![l] = [ld EXCEPT !.pc = "done", !.stack = <<>>, !.cur = 0,
                                               !.emits = ld.emits + 1,
                                               !.result = sorted]]
  /\ UNCHANGED <<passages, uploaded, remote, fails>>

\* the walk of load l goes on to its next await, or load l finishes
continue(l, ld, hp) ==
  \E s \in nextEntry(ld.stack) :
    IF s.more
    THEN /\ loads' = [loads EXCEPT ![l] = [ld EXCEPT !.pc = "stat", !.stack = s.stack,
                                                     !.cur = s.cur]]
         /\ heap' = hp
         /\ UNCHANGED <<passages, uploaded, tasks, batches, notices, remote, fails>>
    ELSE finishLoad(l, ld, hp)

\* load testing the folder after it has emptied this.passages
LoadThrow_afterReset(l, asc) ==
  /\ loads[l].pc = "new"
  /\ \A k \in 1..(l - 1) : loads[k].pc # "new"
  /\ ~folderExists
  /\ passages' = l
  /\ heap' = [heap EXCEPT ![l] = <<>>]
  /\ loads' = [loads EXCEPT ![l].pc = "failed", ![l].asc = asc, ![l].epoch = edits]
  /\ UNCHANGED <<folderExists, disk, clock, edits, uploaded, tasks, batches, notices,
                 remote, fails, query>>

\* load(asc) is called and the notes folder is missing: it throws
LoadThrow(l, asc) ==
  /\ loads[l].pc = "new"
  /\ \A k \in 1..(l - 1) : loads[k].pc # "new"
  /\ ~folderExists
  /\ loads' = [loads EXCEPT ![l].pc = "failed", ![l].asc = asc, ![l].epoch = edits]
  /\ UNCHANGED <<folderExists, disk, clock, edits, uploaded, heap, passages, tasks,
                 batches, notices, remote, fails, query>>

\* load without `this.passages = []`: the walk pushes onto the array held
LoadStart_noReset(l, asc) ==
  /\ loads[l].pc = "new"
  /\ \A k \in 1..(l - 1) : loads[k].pc # "new"
  /\ folderExists
  /\ passages' = l
  /\ heap' = [heap EXCEPT ![l] = heap[passages]]
  /\ loads' = [k \in Loads |->
                IF k = l THEN [loads[l] EXCEPT !.pc = "readdir", !.asc = asc, !.cur = 0,
                                               !.epoch = edits, !.overlap = ~Idle]
                ELSE IF Walking(k) THEN [loads[k] EXCEPT !.overlap = TRUE]
                ELSE loads[k]]
  /\ UNCHANGED <<folderExists, disk, clock, edits, uploaded, tasks, batches, notices,
                 remote, fails, query>>

\* load emitting 'upload' before it awaits _load
LoadStart_emitFirst(l, asc) ==
  /\ loads[l].pc = "new"
  /\ \A k \in 1..(l - 1) : loads[k].pc # "new"
  /\ folderExists
  /\ passages' = l
  /\ heap' = [heap EXCEPT ![l] = <<>>]
  /\ onUpload(l, <<>>)
  /\ loads' = [k \in Loads |->
                IF k = l THEN [loads[l] EXCEPT !.pc = "readdir", !.asc = asc, !.cur = 0,
                                               !.emits = 1,
                                               !.epoch = edits, !.overlap = ~Idle]
                ELSE IF Walking(k) THEN [loads[k] EXCEPT !.overlap = TRUE]
                ELSE loads[k]]
  /\ UNCHANGED <<folderExists, disk, clock, edits, uploaded, remote, fails, query>>

\* load(asc) is called: this.passages = [], and _load awaits readdir
LoadStart(l, asc) ==
  /\ loads[l].pc = "new"
  /\ \A k \in 1..(l - 1) : loads[k].pc # "new"
  /\ folderExists
  /\ passages' = l
  /\ heap' = [heap EXCEPT ![l] = <<>>]
  /\ loads' = [k \in Loads |->
                IF k = l THEN [loads[l] EXCEPT !.pc = "readdir", !.asc = asc, !.cur = 0,
                                               !.epoch = edits, !.overlap = ~Idle]
                ELSE IF Walking(k) THEN [loads[k] EXCEPT !.overlap = TRUE]
                ELSE loads[k]]
  /\ UNCHANGED <<folderExists, disk, clock, edits, uploaded, tasks, batches, notices,
                 remote, fails, query>>

\* readdir resolves: a new frame of _load starts its loop
ReaddirDone(l) ==
  /\ loads[l].pc = "readdir"
  /\ LET ld == loads[l]
         frame == [dir |-> ld.cur, todo |-> readdir(ld.cur)]
     IN continue(l, [ld EXCEPT !.stack = Append(ld.stack, frame)], heap)
  /\ UNCHANGED <<folderExists, disk, clock, edits, query>>

\* stat resolves: a .md file goes to parseFile (this.passages is read for
\* the push before parseFile is awaited), a directory to _load, anything
\* else back to the loop
StatDone(l) ==
  /\ loads[l].pc = "stat"
  /\ LET ld == loads[l]
         n  == ld.cur
     IN IF n \in Files /\ endsWith(NodeName(n), DOT_MD)
        THEN /\ loads' = [loads EXCEPT ![l] = [ld EXCEPT !.pc = "readFile",
                                                        !.target = passages,
                                                        !.handed = ld.handed \cup {n}]]
             /\ UNCHANGED <<heap, passages, uploaded, tasks, batches, notices, remote, fails>>
        ELSE IF n \in Dirs
        THEN /\ loads' = [loads EXCEPT ![l].pc = "readdir"]
             /\ UNCHANGED <<heap, passages, uploaded, tasks, batches, notices, remote, fails>>
        ELSE continue(l, ld, heap)
  /\ UNCHANGED <<folderExists, disk, clock, edits, query>>

\* _load without its try/catch: what parseFile throws rejects the load
ReadFileDone_noCatch(l) ==
  /\ loads[l].pc = "readFile"
  /\ LET ld == loads[l]
         r  == parseFile(ld.cur, disk[ld.cur], clock)
     IN IF r.threw
        THEN /\ loads' = [loads EXCEPT ![l].pc = "failed"]
             /\ UNCHANGED <<heap, passages, uploaded, tasks, batches, notices, remote, fails>>
        ELSE continue(l, ld, [heap EXCEPT ![ld.target] = Append(heap[ld.target], r.passage)])
  /\ UNCHANGED <<folderExists, disk, clock, edits, query>>

\* readFile resolves: parseFile builds the passage, which is pushed, or it
\* throws, which is logged
ReadFileDone(l) ==
  /\ loads[l].pc = "readFile"
  /\ LET ld == loads[l]
         r  == parseFile(ld.cur, disk[ld.cur], clock)
     IN IF r.threw
        THEN continue(l, [ld EXCEPT !.errors = ld.errors \cup {ld.cur}], heap)
        ELSE continue(l, ld, [heap EXCEPT ![ld.target] = Append(heap[ld.target], r.passage)])
  /\ UNCHANGED <<folderExists, disk, clock, edits, query>>

\* ------------------------------------------------------------- the sync
\* collection.get() without its where: the _ids of all records
whereGet_all(rs, permalink) == {rs[i].id : i \in 1..Len(rs)}

\* collection.where({permalink}).get(): the _ids of the records with that
\* permalink (res1.data); the collection returns them in an order of its own
whereGet(rs, permalink) ==
  {rs[i].id : i \in {j \in 1..Len(rs) : rs[j].doc.permalink = permalink}}

\* collection.doc(id).update(passage): the record's fields are overwritten
docUpdate(rs, id, passage) ==
  [i \in 1..Len(rs) |-> IF rs[i].id = id THEN [rs[i] EXCEPT !.doc = passage] ELSE rs[i]]

\* collection.add(passage): a record with a new _id
collectionAdd(rs, passage) == Append(rs, [id |-> Len(rs) + 1, doc |-> passage])

\* updatePassage adding the record its query missed, leaving the one it found
upsert_insertOnly(rs, found, passage) ==
  IF found # 0 THEN rs ELSE collectionAdd(rs, passage)

\* updatePassage adding a record whatever its query found
upsert_alwaysAdd(rs, found, passage) == collectionAdd(rs, passage)

\* updatePassage, after its query: update the record found, or add one
upsert(rs, found, passage) ==
  IF found # 0 THEN docUpdate(rs, found, passage) ELSE collectionAdd(rs, passage)

\* the query of task i resolves; updatePassage issues its update of
\* res1.data[0], whichever record the collection lists first, or its add
\* (found = 0) when res1.data is empty
TaskFind(i) ==
  /\ tasks[i].pc = "find"
  /\ LET data == whereGet(remote, tasks[i].passage.permalink) IN
     \E found \in (IF data = {} THEN {0} ELSE data) :
       tasks' = [tasks EXCEPT ![i].pc = "write", ![i].found = found]
  /\ UNCHANGED <<folderExists, disk, clock, edits, uploaded, heap, passages, loads,
                 batches, notices, remote, fails, query>>

\* the update or add of task i resolves: the task is done, the limiter
\* starts the next one, and onUpload logs UploadSuccess once all are done
TaskWrite(i) ==
  /\ tasks[i].pc = "write"
  /\ remote' = upsert(remote, tasks[i].found, tasks[i].passage)
  /\ tasks' = pLimitNext([tasks EXCEPT ![i].pc = "done"])
  /\ batches' = settle(tasks', batches)
  /\ UNCHANGED <<folderExists, disk, clock, edits, uploaded, heap, passages, loads,
                 notices, fails, query>>

\* a remote call of task i rejects: updatePassage throws, the limiter starts
\* the next task, Promise.all rejects
TaskFail(i) ==
  /\ tasks[i].pc \in {"find", "write"}
  /\ fails < MaxFails
  /\ fails' = fails + 1
  /\ tasks' = pLimitNext([tasks EXCEPT ![i].pc = "failed"])
  /\ batches' = settle(tasks', batches)
  /\ UNCHANGED <<folderExists, disk, clock, edits, uploaded, heap, passages, loads,
                 notices, remote, query>>

\* ------------------------------------------------------ the environment
\* The tree and the clock change between two loads, not during a walk: Next
\* takes these steps while no load is awaiting.
\* a file of the tree is rewritten, removed or put back
EditFile(n, text) ==
  /\ edits < MaxEdits
  /\ text # disk[n]
  /\ disk' = [disk EXCEPT ![n] = text]
  /\ edits' = edits + 1
  /\ UNCHANGED <<folderExists, clock, uploaded, heap, passages, loads, tasks, batches,
                 notices, remote, fails, query>>

\* the notes folder is moved away or put back
EditFolder ==
  /\ edits < MaxEdits
  /\ folderExists' = ~folderExists
  /\ edits' = edits + 1
  /\ UNCHANGED <<disk, clock, uploaded, heap, passages, loads, tasks, batches,
                 notices, remote, fails, query>>

\* a day passes
Tick ==
  /\ clock < MaxDay
  /\ clock' = clock + 1
  /\ UNCHANGED <<folderExists, disk, edits, uploaded, heap, passages, loads, tasks,
                 batches, notices, remote, fails, query>>

\* ------------------------------------------------------- specification
NoQuery == [limit |-> 0, page |-> 0, result |-> <<>>]

\* a record left in the collection by an earlier run of the server
OldRecord ==
  [id |-> 1, doc |-> [filename |-> <<"o", "l", "d">>, filepath |-> 1,
                      title |-> <<"o", "l", "d">>,
                      mtime |-> [day |-> 1, time |-> "00:00:00"], date |-> 1,
                      permalink |-> "p1"]]

\* the tree with texts t1, t2, t7 in the files that change
DiskOf(t1, t2, t7) ==
  [n \in Files |-> CASE n = 1 -> t1 [] n = 2 -> t2 [] n = 7 -> t7
                     [] OTHER -> CHOOSE t \in Texts(n) : TRUE]

\* the state after the constructor, but for the tree and the collection
Constructed ==
  /\ folderExists = TRUE
  /\ clock = MaxDay - 1
  /\ edits = 0
  /\ uploaded = FALSE
  /\ heap = [a \in 0..MaxLoads |-> <<>>]
  /\ passages = 0
  /\ loads = [l \in Loads |-> NewLoad]
  /\ tasks = <<>>
  /\ batches = <<>>
  /\ notices = 0
  /\ fails = 0
  /\ query = NoQuery

\* Spec: load calls that do not overlap and the syncs they trigger, every
\* interleaving of the upserts with each other and with the next load.  The
\* tree holds two files that build, or one, and does not change.
Init ==
  /\ Constructed
  /\ disk \in {DiskOf(Text("map", "p1", 2, <<"T", "1">>), t2, Text("map", "", 2, <<>>)) :
                 t2 \in {Text("map", "p2", 1, <<>>), Text("map", "p2", BadDate, <<>>)}}
  /\ remote \in {<<>>, <<OldRecord>>}

Next ==
  \/ \E l \in Loads, asc \in BOOLEAN : Idle /\ LoadStart(l, asc)
  \/ \E l \in Loads, asc \in BOOLEAN : Idle /\ LoadThrow(l, asc)
  \/ \E l \in Loads : ReaddirDone(l)
  \/ \E l \in Loads : StatDone(l)
  \/ \E l \in Loads : ReadFileDone(l)
  \/ \E i \in 1..Len(tasks) : TaskFind(i)
  \/ \E i \in 1..Len(tasks) : TaskWrite(i)
  \/ \E i \in 1..Len(tasks) : TaskFail(i)
  \/ Idle /\ EditFolder

Spec == Init /\ [][Next]_vars

\* SpecWalk: load calls that do not overlap over a tree that changes between
\* them.  The remote calls are left pending: the steps of the sync write
\* tasks, batches, remote and fails only, none of which the walk, the store
\* or a query reads.
InitWalk ==
  /\ Constructed
  /\ disk \in {DiskOf(t1, t2, t7) :
                 t1 \in {Text("map", "p1", 2, <<"T", "1">>), Removed},
                 t2 \in {Text("map", "p2", 1, <<>>), Text("map", "p2", BadDate, <<>>)},
                 t7 \in {Text("map", "p3", 3, <<>>), Text("map", "", 2, <<>>)}}
  /\ remote = <<>>

NextWalk ==
  \/ \E l \in Loads, asc \in BOOLEAN : Idle /\ LoadStart(l, asc)
  \/ \E l \in Loads, asc \in BOOLEAN : Idle /\ LoadThrow(l, asc)
  \/ \E l \in Loads : ReaddirDone(l)
  \/ \E l \in Loads : StatDone(l)
  \/ \E l \in Loads : ReadFileDone(l)
  \/ \E n \in VarFiles : \E text \in Texts(n) : Idle /\ EditFile(n, text)
  \/ Idle /\ EditFolder
  \/ Idle /\ Tick

SpecWalk == InitWalk /\ [][NextWalk]_vars

\* describePassages(limit, page) is called
DescribePassages(limit, page) ==
  /\ query' = [limit |-> limit, page |-> page,
               result |-> describePassages(heap[passages], limit, page)]
  /\ UNCHANGED <<folderExists, disk, clock, edits, uploaded, heap, passages, loads,
                 tasks, batches, notices, remote, fails>>

\* SpecQuery: the paged listing, called with any limit and page on the store
\* a completed load has left: the passages of some of the files, sorted.
BuiltPassages ==
  {parseFile(x[1], x[2], MaxDay - 1).passage :
     x \in {y \in UNION {{<<n, t>> : t \in Texts(n)} : n \in VarFiles} :
              ~parseFile(y[1], y[2], MaxDay - 1).threw}}

Walks ==
  {s \in UNION {[1..k -> BuiltPassages] : k \in 0..Cardinality(VarFiles)} :
     \A i, j \in 1..Len(s) : i # j => s[i].filepath # s[j].filepath}

InitQuery ==
  /\ folderExists = TRUE
  /\ disk \in {DiskOf(Text("map", "p1", 2, <<"T", "1">>), Text("map", "p2", 1, <<>>),
                      Text("map", "p3", 3, <<>>))}
  /\ clock = MaxDay - 1
  /\ edits = 0
  /\ uploaded = FALSE
  /\ passages = 1
  /\ \E s \in Walks, asc \in BOOLEAN :
       /\ heap = [a \in 0..MaxLoads |-> IF a = 1 THEN sortPassages(s, asc) ELSE <<>>]
       /\ loads = [l \in Loads |->
                     IF l = 1 THEN [NewLoad EXCEPT !.pc = "done", !.asc = asc, !.target = 1,
                                                   !.result = sortPassages(s, asc),
                                                   !.emits = 1]
                     ELSE NewLoad]
  /\ tasks = <<>>
  /\ batches = <<>>
  /\ notices = 0
  /\ remote = <<>>
  /\ fails = 0
  /\ query = NoQuery

NextQuery ==
  \E limit \in 1..MaxPage, page \in (0 - MaxPage)..(MaxPage + 1) : DescribePassages(limit, page)

SpecQuery == InitQuery /\ [][NextQuery]_vars

\* SpecLimit: the sync of a notes folder of ManyFiles files, more than the
\* limiter runs at once.  It starts where the load of that folder awaits the
\* stat of the last entry of its walk, every file before it built and pushed;
\* the files share the permalink of the record the collection holds, and no
\* remote call fails.
ManyFiles == 11

ManyPassages ==
  [k \in 1..ManyFiles |->
     [filename |-> <<"1", ".", "m", "d">>, filepath |-> 100 + k, title |-> <<>>,
      mtime |-> [day |-> 1, time |-> "00:00:00"], date |-> 1, permalink |-> "p1"]]

InitLimit ==
  /\ folderExists = TRUE
  /\ disk = DiskOf(Text("map", "p1", 2, <<"T", "1">>), Text("map", "p2", 1, <<>>),
                   Text("map", "", 2, <<>>))
  /\ clock = MaxDay - 1
  /\ edits = 0
  /\ uploaded = FALSE
  /\ passages = 1
  /\ heap = [a \in 0..MaxLoads |-> IF a = 1 THEN ManyPassages ELSE <<>>]
  /\ loads = [l \in Loads |->
                IF l = 1 THEN [NewLoad EXCEPT !.pc = "stat", !.cur = 5, !.target = 1]
                ELSE NewLoad]
  /\ tasks = <<>>
  /\ batches = <<>>
  /\ notices = 0
  /\ remote = <<OldRecord>>
  /\ fails = 0
  /\ query = NoQuery

NextLimit ==
  \/ StatDone(1)
  \/ \E i \in 1..Len(tasks) : TaskFind(i)
  \/ \E i \in 1..Len(tasks) : TaskWrite(i)

SpecLimit == InitLimit /\ [][NextLimit]_vars

\* SpecRemove: Spec over a tree from which a file that builds may be removed
\* between two loads.
NextRemove ==
  \/ Next
  \/ \E n \in {1, 2} : Idle /\ EditFile(n, Removed)

SpecRemove == Init /\ [][NextRemove]_vars

\* parseName is called with the path of a file `base` in a directory `dir`
ParseName(dir, base) ==
  /\ query' = [dir |-> dir, base |-> base, result |-> parseNameOf(dir, base)]
  /\ UNCHANGED <<folderExists, disk, clock, edits, uploaded, heap, passages, loads,
                 tasks, batches, notices, remote, fails>>

\* names of directories: with a digit prefix, without one, with digits and no
\* dot, with a second prefix behind the first, with a dot and no digit
DirNames ==
  { <<"0", "3", ".", "t", "o", "p">>, <<"t", "o", "p">>, <<"3", "t", "o", "p">>,
    <<"1", "2", ".", "3", ".", "t">>, <<"t", ".", "0", "3", ".">>, <<".", "t", "o", "p">>,
    <<"r", "e", "a", "d", "m", "e", ".", "m", "d">>, <<"0", ".">>,
    <<"a", "1", ".", "t">>, NOTES_FOLDER }

\* names of files: readme in three spellings and with three extensions, and
\* names that are not readme
BaseNames ==
  { <<"r", "e", "a", "d", "m", "e", ".", "m", "d">>,
    <<"R", "E", "A", "D", "M", "E", ".", "m", "d">>,
    <<"R", "e", "a", "d", "M", "e", ".", "M", "D">>,
    <<"r", "e", "a", "d", "m", "e">>,
    <<"r", "e", "a", "d", "m", "e", ".", "t", "x", "t">>,
    <<"0", "2", ".", "i", "n", "t", "r", "o", ".", "m", "d">>,
    <<"0", "2", ".", "r", "e", "a", "d", "m", "e", ".", "m", "d">>,
    <<"r", "e", "a", "d", "m", "e", ".", "m", "d", ".", "m", "d">>,
    <<"i", "n", "t", "r", "o", ".", "m", "d">>,
    <<"r", "e", "a", "d", "m", "e", "s", ".", "m", "d">> }

\* SpecName: parseName called with any of these paths
InitName ==
  /\ Constructed
  /\ disk = DiskOf(Text("map", "p1", 2, <<>>), Text("map", "p2", 1, <<>>),
                   Text("map", "p3", 3, <<>>))
  /\ remote = <<>>

NextName == \E dir \in DirNames, base \in BaseNames : ParseName(dir, base)

SpecName == InitName /\ [][NextName]_vars

\* SpecOverlap: load calls made without waiting for the one before, over a
\* tree of three files that build and that does not change.  Each call runs
\* from one await to the next; the event loop takes the calls' steps in any
\* order.  The remote calls are left pending.
InitOverlap ==
  /\ Constructed
  /\ disk = DiskOf(Text("map", "p1", 2, <<"T", "1">>), Text("map", "p2", 1, <<>>),
                   Text("map", "p3", 3, <<>>))
  /\ remote = <<>>

NextOverlap ==
  \/ \E l \in Loads, asc \in BOOLEAN : LoadStart(l, asc)
  \/ \E l \in Loads : ReaddirDone(l)
  \/ \E l \in Loads : StatDone(l)
  \/ \E l \in Loads : ReadFileDone(l)

SpecOverlap == InitOverlap /\ [][NextOverlap]_vars

\* SpecShared: Spec over a tree in which the two files that build have the
\* same permalink.
InitShared ==
  /\ Constructed
  /\ disk = DiskOf(Text("map", "p1", 2, <<"T", "1">>), Text("map", "p1", 1, <<>>),
                   Text("map", "", 2, <<>>))
  /\ remote \in {<<>>, <<OldRecord>>}

SpecShared == InitShared /\ [][Next]_vars

\* SpecFair: one load and the sync it triggers, no remote call failing.  The
\* files that build have different permalinks.  A remote call that does not
\* fail resolves, and the event loop runs the continuation of every promise
\* that has resolved: the steps of the upserts are weakly fair.
NextFair ==
  \/ \E asc \in BOOLEAN : LoadStart(1, asc)
  \/ ReaddirDone(1)
  \/ StatDone(1)
  \/ ReadFileDone(1)
  \/ \E i \in 1..Len(tasks) : TaskFind(i)
  \/ \E i \in 1..Len(tasks) : TaskWrite(i)

SpecFair ==
  /\ Init
  /\ [][NextFair]_vars
  /\ WF_vars(\E i \in 1..Len(tasks) : TaskFind(i))
  /\ WF_vars(\E i \in 1..Len(tasks) : TaskWrite(i))

\* SpecFairFail: SpecFair with a remote call that fails.  A call that fails
\* has resolved too; which call fails is up to the collection.
NextFairFail ==
  \/ NextFair
  \/ \E i \in 1..Len(tasks) : TaskFail(i)

SpecFairFail ==
  /\ Init
  /\ [][NextFairFail]_vars
  /\ WF_vars(\E i \in 1..Len(tasks) : TaskFind(i))
  /\ WF_vars(\E i \in 1..Len(tasks) : TaskWrite(i))

\* ================================================================ claims
\* what the claims say of a name, a path and a text, in their own words
RECURSIVE AllDigits(_)
AllDigits(s) == s = <<>> \/ (Head(s) \in Digits /\ AllDigits(Tail(s)))

\* the name is "readme.md" in some case, or one or more digits and a dot
NameMatches(name) ==
  \/ toLocaleLowerCase(name) = <<"r", "e", "a", "d", "m", "e", ".", "m", "d">>
  \/ \E k \in 1..(Len(name) - 1) : AllDigits(SubSeq(name, 1, k)) /\ name[k + 1] = "."

\* the name of n and of every directory between the notes folder and n matches
RECURSIVE PathMatches(_)
PathMatches(n) == n = 0 \/ (NameMatches(NodeName(n)) /\ PathMatches(NodeParent(n)))

\* n is a file on disk that the walker is to hand to the builder
Qualifies(n) ==
  /\ n \in Files
  /\ disk[n].yaml # "removed"
  /\ Len(NodeName(n)) >= 3
  /\ SubSeq(NodeName(n), Len(NodeName(n)) - 2, Len(NodeName(n))) = <<".", "m", "d">>
  /\ PathMatches(n)

\* the text has a header that decodes, a permalink and no unparseable date
Builds(text) ==
  /\ text.yaml = "map"
  /\ text.permalink # NoVal /\ text.permalink # ""
  /\ text.date # BadDate

FilePaths(s) == {s[i].filepath : i \in 1..Len(s)}
Valid == {n \in Files : Qualifies(n) /\ Builds(disk[n])}
Failing == {n \in Files : Qualifies(n) /\ ~Builds(disk[n])}

RECURSIVE SumEmits(_)
SumEmits(l) == IF l = 0 THEN 0 ELSE loads[l].emits + SumEmits(l - 1)

\* C1: however often the sync trigger fires in one process, one batch of
\* upserts is run, by the first trigger, and every later trigger only logs
\* the UploadRepeated notice.
C1_OneBatchPerProcess ==
  SumEmits(MaxLoads) >= 1 => /\ Len(batches) = 1
                             /\ notices = SumEmits(MaxLoads) - 1

\* C2: when a load has completed (and the tree is as that load found it)
\* the Store holds one passage per file that qualifies and builds, each
\* built from the text the file has now, and nothing else.
C2_StoreReplaced ==
  \A l \in Loads :
    (loads[l].pc = "done" /\ passages = l /\ ~loads[l].overlap /\ loads[l].epoch = edits)
    => LET store == heap[passages] IN
       /\ FilePaths(store) = Valid
       /\ Len(store) = Cardinality(Valid)
       /\ \A i \in 1..Len(store) :
            LET text == disk[store[i].filepath] IN
            /\ store[i].permalink = text.permalink
            /\ text.date # NoDate => store[i].date = text.date

\* a second load has completed after a file the first load built was
\* removed or made invalid
C2_Witness ==
  /\ loads[1].pc = "done" /\ loads[2].pc = "done" /\ passages = 2
  /\ loads[2].epoch = edits
  /\ \E n \in FilePaths(loads[1].result) : n \notin FilePaths(heap[passages])
  /\ heap[passages] # <<>>

NonDecreasing(s) == \A i, j \in 1..Len(s) : i < j => s[i].date <= s[j].date
NonIncreasing(s) == \A i, j \in 1..Len(s) : i < j => s[i].date >= s[j].date
CountOf(s, permalink) == Cardinality({i \in 1..Len(s) : s[i].permalink = permalink})
SamePermalinks(s, t) ==
  \A q \in {s[i].permalink : i \in 1..Len(s)} \cup {t[i].permalink : i \in 1..Len(t)} :
    CountOf(s, q) = CountOf(t, q)

\* C3: load(true) returns dates in non-decreasing order, load(false) in
\* non-increasing order, and the two over the same tree return the same
\* permalinks, each as often.
C3_SortedBothWays ==
  /\ \A l \in Loads :
       loads[l].pc = "done" =>
         IF loads[l].asc THEN NonDecreasing(loads[l].result)
         ELSE NonIncreasing(loads[l].result)
  /\ \A k, l \in Loads :
       (/\ loads[k].pc = "done" /\ loads[l].pc = "done"
        /\ loads[k].asc /\ ~loads[l].asc
        /\ loads[k].epoch = loads[l].epoch)
       => SamePermalinks(loads[k].result, loads[l].result)

\* both directions were loaded over one tree holding three passages of
\* three different days
C3_Witness ==
  \E k, l \in Loads :
    /\ loads[k].pc = "done" /\ loads[l].pc = "done"
    /\ loads[k].asc /\ ~loads[l].asc
    /\ loads[k].epoch = loads[l].epoch
    /\ Len(loads[k].result) = 3
    /\ Cardinality({loads[k].result[i].date : i \in 1..3}) = 3

\* C4: a file whose build fails never ends the walk: a load fails only
\* before it has handed any file to the builder, and a load that completed
\* returns the files that qualify and build, and has logged the files that
\* qualify and do not build.
C4_FailuresIsolated ==
  \A l \in Loads :
    /\ loads[l].pc = "failed" => loads[l].handed = {}
    /\ (loads[l].pc = "done" /\ ~loads[l].overlap /\ loads[l].epoch = edits)
       => /\ FilePaths(loads[l].result) = Valid
          /\ Len(loads[l].result) = Cardinality(Valid)
          /\ loads[l].errors = Failing

\* a load completed over a failing file in the notes folder and a valid one
\* below it, and one over the reverse
C4_Witness ==
  /\ loads[1].pc = "done" /\ loads[2].pc = "done" /\ loads[2].epoch = edits
  /\ loads[1].errors = {2} /\ 7 \in FilePaths(loads[1].result)
  /\ loads[2].errors = {2, 7} /\ FilePaths(loads[2].result) = {1}

\* C5: every passage of every array this.passages has named has a permalink
\* that is not empty.
C5_PermalinkNonEmpty ==
  \A a \in DOMAIN heap : \A i \in 1..Len(heap[a]) :
    heap[a][i].permalink # "" /\ heap[a][i].permalink # NoVal

\* a load in progress has pushed a passage and has logged the file whose
\* permalink is empty
C5_Witness ==
  \E l \in Loads :
    /\ Walking(l)
    /\ heap[passages] # <<>>
    /\ \E n \in loads[l].errors : disk[n].yaml = "map" /\ disk[n].permalink = ""

\* C6: a load called while the notes folder is missing fails, returns
\* nothing, and leaves the Store, the sync and the remote store as they were.
C6_MissingFolderChangesNothing ==
  [][\A l \in Loads :
       (loads[l].pc = "new" /\ loads'[l].pc # "new" /\ ~folderExists)
       => /\ loads'[l].pc = "failed"
          /\ loads'[l].result = <<>>
          /\ loads'[l].emits = 0
          /\ heap' = heap /\ passages' = passages
          /\ tasks' = tasks /\ batches' = batches /\ notices' = notices
          /\ remote' = remote]_vars

\* the second load failed and the Store holds what the first load left
C6_Witness ==
  /\ loads[1].pc = "done" /\ loads[2].pc = "failed"
  /\ heap[passages] # <<>> /\ heap[passages] = loads[1].result

\* C7: the files handed to the builder are the files that qualify, and
\* nothing is logged for any other entry.
C7_HandedIffQualifies ==
  \A l \in Loads :
    /\ loads[l].errors \subseteq loads[l].handed
    /\ loads[l].epoch = edits => loads[l].handed \subseteq {n \in Files : Qualifies(n)}
    /\ (loads[l].pc = "done" /\ loads[l].epoch = edits)
       => loads[l].handed = {n \in Files : Qualifies(n)}

\* a load completed over the whole tree: the three files that qualify were
\* handed over, the nine other entries were not
C7_Witness ==
  \E l \in Loads :
    /\ loads[l].pc = "done" /\ loads[l].epoch = edits
    /\ loads[l].handed = {1, 2, 7}
    /\ loads[l].errors = {}

\* C8: for limit >= 1 and page >= 1 the page is the items at offsets
\* (page-1)*limit .. min(page*limit, n)-1 of the store, in order, and is
\* empty when (page-1)*limit >= n.
C8_PageIsContiguousSlice ==
  (query.limit >= 1 /\ query.page >= 1)
  => LET store == heap[passages]
         n     == Len(store)
         lo    == (query.page - 1) * query.limit
         hi    == (IF query.page * query.limit < n THEN query.page * query.limit ELSE n) - 1
     IN IF lo >= n THEN query.result = <<>>
        ELSE /\ Len(query.result) = hi - lo + 1
             /\ \A k \in 1..Len(query.result) : query.result[k] = store[lo + k]

\* page 2 of size 2 of three passages was asked for: the third passage
C8_Witness ==
  /\ query.limit = 2 /\ query.page = 2 /\ Len(heap[passages]) = 3
  /\ query.result = <<heap[passages][3]>>

\* C9: a page number that is no page of the store (zero and negative ones
\* included) gives an empty sequence.
C9_OutOfRangeIsEmpty ==
  (/\ query.limit >= 1
   /\ \/ query.page < 1
      \/ (query.page - 1) * query.limit >= Len(heap[passages]))
  => query.result = <<>>

\* C10: an upsert whose query found a record with the passage's permalink
\* overwrites that record and leaves the number of records; one whose query
\* found none adds one record; either way every record with another
\* permalink stays as it was.
C10_FindOrCreate ==
  [][\A i \in 1..Len(tasks) :
       LET p == tasks[i].passage IN
       /\ (tasks[i].pc = "find" /\ tasks'[i].pc = "write")
          => IF \E k \in 1..Len(remote) : remote[k].doc.permalink = p.permalink
             THEN \E k \in 1..Len(remote) : /\ remote[k].id = tasks'[i].found
                                            /\ remote[k].doc.permalink = p.permalink
             ELSE tasks'[i].found = 0
       /\ (tasks[i].pc = "write" /\ tasks'[i].pc = "done")
          => /\ \A k \in 1..Len(remote) :
                  remote[k].doc.permalink # p.permalink => remote'[k] = remote[k]
             /\ IF tasks[i].found # 0
                THEN /\ Len(remote') = Len(remote)
                     /\ \E k \in 1..Len(remote) :
                          /\ remote[k].id = tasks[i].found
                          /\ remote[k].doc.permalink = p.permalink
                          /\ remote'[k] = [id |-> remote[k].id, doc |-> p]
                          /\ \A j \in 1..Len(remote) : j # k => remote'[j] = remote[j]
                ELSE /\ Len(remote') = Len(remote) + 1
                     /\ SubSeq(remote', 1, Len(remote)) = remote
                     /\ remote'[Len(remote')].doc = p
                     /\ \A k \in 1..Len(remote) :
                          remote[k].id # remote'[Len(remote')].id]_vars

\* one upsert has overwritten the record it found, another has added one
C10_Witness ==
  /\ \E i \in 1..Len(tasks) : tasks[i].pc = "done" /\ tasks[i].found # 0
  /\ \E i \in 1..Len(tasks) : tasks[i].pc = "done" /\ tasks[i].found = 0
  /\ Len(remote) >= 2

TasksOf(b) == {i \in 1..Len(tasks) : tasks[i].batch = b}

\* C12: a sync submits one upsert task per passage of the load that
\* triggered it, and its UploadSuccess is logged only when every task of the
\* batch is done: never while one is queued or in flight, and never once
\* one has failed.
C12_SuccessAfterAllDone ==
  \A b \in 1..Len(batches) :
    LET result == loads[batches[b].load].result IN
    /\ Cardinality(TasksOf(b)) = Len(result)
    /\ \A k \in 1..Len(result) :
         Cardinality({i \in TasksOf(b) : tasks[i].passage = result[k]}) = 1
    /\ batches[b].state = "success" => \A i \in TasksOf(b) : tasks[i].pc = "done"

\* the first batch of two upserts has logged UploadSuccess, the second has
\* one upsert done and one in flight and has not
C12_Witness ==
  /\ Len(batches) = 2
  /\ batches[1].state = "success" /\ Cardinality(TasksOf(1)) = 2
  /\ batches[2].state = "pending"
  /\ \E i, j \in TasksOf(2) : tasks[i].pc = "done" /\ tasks[j].pc \in {"find", "write"}

\* the passages the tasks of batch b were given, in the order of submission
BatchPassages(b) ==
  LET sel == SelectSeq(tasks, LAMBDA t : t.batch = b)
  IN [i \in 1..Len(sel) |-> sel[i].passage]

\* C13: a load that has completed has emitted 'upload' exactly once, and the
\* sync it triggered was given the passages that load returned, each once;
\* a load that is still walking, has failed or was not called has emitted
\* nothing and has triggered no sync.
C13_OneTriggerPerCompletedLoad ==
  \A l \in Loads :
    LET mine == {b \in 1..Len(batches) : batches[b].load = l} IN
    IF loads[l].pc = "done"
    THEN /\ loads[l].emits = 1
         /\ Cardinality(mine) + notices >= 1
         /\ Cardinality(mine) <= 1
         /\ \A b \in mine : sortPassages(BatchPassages(b), loads[l].asc) = loads[l].result
    ELSE loads[l].emits = 0 /\ mine = {}

\* two loads of opposite directions completed: two syncs, each given the two
\* passages its load returned
C13_Witness ==
  /\ loads[1].pc = "done" /\ loads[2].pc = "done"
  /\ Len(batches) = 2
  /\ Len(BatchPassages(1)) = 2 /\ Len(BatchPassages(2)) = 2
  /\ loads[1].asc # loads[2].asc

\* for every passage of the Store the collection holds a record of that
\* permalink whose fields are the passage's
Consistent ==
  \A i \in 1..Len(heap[passages]) :
    \E k \in 1..Len(remote) :
      /\ remote[k].doc.permalink = heap[passages][i].permalink
      /\ remote[k].doc = heap[passages][i]

\* C14: when the files loaded have different permalinks, no remote call
\* fails and no further load is started, the completion of the first load
\* leads to a state where the collection holds, for every passage of the
\* Store, a record of that permalink with that passage's fields.
C14_EventuallyConsistent == (loads[1].pc = "done") ~> Consistent

\* the Store holds two passages, the record of an earlier run was
\* overwritten by the first and a record was added for the second
C14_Witness ==
  /\ loads[1].pc = "done" /\ Len(heap[passages]) = 2
  /\ Consistent
  /\ Len(remote) = 2 /\ remote[1].id = OldRecord.id /\ remote[1].doc # OldRecord.doc
  /\ \A i \in 1..Len(tasks) : tasks[i].pc = "done"

Permalinks(rs) == {rs[k].doc.permalink : k \in 1..Len(rs)}

\* C15: no step of a load or a sync removes a record of the collection: the
\* records never get fewer, every record stays under its _id, and every
\* permalink the collection held it still holds, also after a file was
\* removed from the notes folder and the folder loaded again.
C15_NeverDeleted ==
  [][/\ Len(remote') >= Len(remote)
     /\ \A k \in 1..Len(remote) : \E j \in 1..Len(remote') : remote'[j].id = remote[k].id
     /\ Permalinks(remote) \subseteq Permalinks(remote')]_vars

\* the file of permalink p1 was removed after the first sync had stored it,
\* the second load and its sync are done, and the record is still held
C15_Witness ==
  /\ loads[1].pc = "done" /\ loads[2].pc = "done"
  /\ disk[1] = Removed /\ 1 \in FilePaths(loads[1].result)
  /\ Len(batches) = 2 /\ \A i \in 1..Len(tasks) : tasks[i].pc = "done"
  /\ TasksOf(2) # {}
  /\ \E k \in 1..Len(remote) : remote[k].doc.permalink = "p1" /\ remote[k].doc.filepath = 1

\* the load calls that have returned; calls that do not overlap return in the
\* order they were made
Completed == {l \in Loads : loads[l].pc = "done"}

\* C16: at every moment, the suspension points of a load in progress
\* included, once a load has completed the array a query reads is the sorted
\* sequence the most recently completed load returned.
C16_QueriesReadLastResult ==
  Completed # {} =>
    heap[passages] = loads[CHOOSE l \in Completed : \A k \in Completed : k <= l].result

\* the base name without its extension, and whether it is readme in some case
Stem(base) ==
  IF \E k \in 2..Len(base) : base[k] = "."
  THEN SubSeq(base, 1, (CHOOSE k \in 2..Len(base) :
                          base[k] = "." /\ \A j \in (k + 1)..Len(base) : base[j] # ".") - 1)
  ELSE base
IsReadme(base) ==
  /\ Len(Stem(base)) = 6
  /\ \A k \in 1..6 : Stem(base)[k] \in {README[k], <<"R", "E", "A", "D", "M", "E">>[k]}

\* C17: the filename of a file that is not a readme is its base name without
\* the extension, digit prefix included; the filename of a readme is the name
\* of its directory without its leading digits and the dot after them, and
\* a directory name that does not start with digits and a dot is the
\* filename as it is.
C17_FilenameDerivation ==
  "dir" \in DOMAIN query =>
    LET dir == query.dir
        k   == DigitRun(dir)
    IN IF ~IsReadme(query.base) THEN query.result = Stem(query.base)
       ELSE IF k >= 1 /\ Len(dir) > k /\ dir[k + 1] = "."
            THEN query.result = SubSeq(dir, k + 2, Len(dir))
            ELSE query.result = dir

\* C18: the collection, which started with at most one record per permalink,
\* holds at most one record per permalink after any loads and syncs,
\* however the queries and writes of the upserts interleave.
C18_PermalinkUnique ==
  \A j, k \in 1..Len(remote) :
    remote[j].doc.permalink = remote[k].doc.permalink => j = k

\* C19: when two load calls that overlapped have both completed, the Store
\* holds exactly one passage per file that builds, and each call returned a
\* sequence sorted in the direction it asked for.
C19_OverlapIsHarmless ==
  (/\ \A l \in Loads : loads[l].pc = "done"
   /\ \E l \in Loads : loads[l].overlap)
  => /\ FilePaths(heap[passages]) = Valid
     /\ Len(heap[passages]) = Cardinality(Valid)
     /\ \A l \in Loads : IF loads[l].asc THEN NonDecreasing(loads[l].result)
                          ELSE NonIncreasing(loads[l].result)

FailedIn(b) == {i \in TasksOf(b) : tasks[i].pc = "failed"}

====
